---------------------------- MODULE Spec2Model ----------------------------
(***************************************************************************)
(* Model of the weather aggregation backend (space-apps-backend).          *)
(*                                                                         *)
(*   data_handling.py     filter_date, filter_years, get_combined_dataframe*)
(*   data_fetching.py     fetch_data, process_data, clean_data, format_data*)
(*   predict.py           classify_event and the five check_* classifiers  *)
(*   output_formatting.py get_predictions, get_column_statistics, ...      *)
(*   main.py              the FastAPI service (POST / and the downloads)   *)
(*                                                                         *)
(* Numeric observations are fixed-point integers in tenths of the native   *)
(* unit (105 is 10.5), so that the values lying between two integer        *)
(* thresholds of predict.py exist in the model.  A probability count/total *)
(* is kept as the pair [num, den]; den = 0 is the NaN that numpy's 0/0     *)
(* yields.  Calendar dates are records [year, month, day].                 *)
(***************************************************************************)
EXTENDS Integers, Sequences, FiniteSets, TLC

VARIABLES
    \* ---- window generator harness (data_handling.py) ----
    target_date,    \* the "YYYY/MM/DD" input, as its three numeric fields
    years,          \* the years argument of filter_years
    days,           \* the days argument of filter_date
    fy_ret,         \* what filter_years did: NotCalled, Raised(..) or Returned(list)
    fd_ret,         \* what filter_date did: NotCalled, Raised(..) or Returned(<<start,end>>)
    \* ---- classifier harness (predict.py, output_formatting.get_predictions) ----
    factor,         \* which of the five factors is classified
    series,         \* the factor's column of the DataFrame, in tenths of a unit
    cls_ret,        \* what check_<factor>(df) did
    pred_ret,       \* what get_predictions(df)[factor] is
    \* ---- statistics harness (output_formatting.get_column_statistics) ----
    data,           \* the argument: [is_series, dtype, values (tenths)]
    stat_ret,       \* what get_column_statistics(data) did
    \* ---- cleaning harness (data_fetching.clean_data) ----
    frame,          \* the DataFrame process_data built, Missing where NaN
    clean_ret,      \* what clean_data(frame) did
    \* ---- the service (main.py) and the aggregation it runs ----
    app_state,      \* app.state: full_json, yearly_json, final_stats (None until set)
    cache,          \* the memo of format_data_cached, least recently used first
    handler,        \* per worker thread: the request handler it runs and its locals
    posts           \* POST requests accepted so far

dateVars == <<target_date, years, days, fy_ret, fd_ret>>

clsVars == <<factor, series, cls_ret, pred_ret>>

statVars == <<data, stat_ret>>

cleanVars == <<frame, clean_ret>>

svcVars == <<app_state, cache, handler, posts>>

vars == <<dateVars, clsVars, statVars, cleanVars, svcVars>>

\* what a step of one harness leaves alone
notDateVars == <<clsVars, statVars, cleanVars, svcVars>>

notClsVars == <<dateVars, statVars, cleanVars, svcVars>>

notStatVars == <<dateVars, clsVars, cleanVars, svcVars>>

notCleanVars == <<dateVars, clsVars, statVars, svcVars>>

notSvcVars == <<dateVars, clsVars, statVars, cleanVars>>

-----------------------------------------------------------------------------
(* Outcomes of a call: not yet called, raised an exception, returned a value *)

NotCalled == [kind |-> "not_called"]

Raised(exc) == [kind |-> "raised", exc |-> exc]

Returned(v) == [kind |-> "returned", value |-> v]

-----------------------------------------------------------------------------
(* Bounds of the model *)

\* largest `years` argument explored
MaxYears == 3

\* largest `days` (window radius) argument explored
MaxDays == 3

\* first calendar year of the target dates explored; a leap year
FirstYear == 2024

\* number of calendar years after FirstYear that target dates are drawn from
YearSpan == 1

\* longest series handed to a classifier
MaxLen == 3

\* worker threads of the service that handle requests at the same time
NumWorkers == 2

\* POST requests the service accepts in one run
MaxPosts == 2

\* largest `years` and `days` fields of a POST body
MaxPostYears == 2

MaxPostDays == 1

-----------------------------------------------------------------------------
(* The proleptic Gregorian calendar of datetime / pandas.Timestamp *)

IsLeap(y) == (y % 4 = 0 /\ y % 100 # 0) \/ y % 400 = 0

DaysInMonth(y, m) ==
    CASE m \in {1, 3, 5, 7, 8, 10, 12} -> 31
      [] m \in {4, 6, 9, 11} -> 30
      [] OTHER -> IF IsLeap(y) THEN 29 ELSE 28

ValidDate(y, m, d) == y >= 1 /\ m \in 1..12 /\ d >= 1 /\ d <= DaysInMonth(y, m)

MkDate(y, m, d) == [year |-> y, month |-> m, day |-> d]

\* Days before the first of month m in year y.
RECURSIVE DaysBeforeMonth(_, _)
DaysBeforeMonth(y, m) ==
    IF m = 1 THEN 0 ELSE DaysBeforeMonth(y, m - 1) + DaysInMonth(y, m - 1)

\* date.toordinal(): 1 for 0001-01-01.
ToOrdinal(dt) ==
    LET y1 == dt.year - 1
    IN  365 * y1 + (y1 \div 4) - (y1 \div 100) + (y1 \div 400)
        + DaysBeforeMonth(dt.year, dt.month) + dt.day

NextDay(dt) ==
    IF dt.day < DaysInMonth(dt.year, dt.month)
    THEN MkDate(dt.year, dt.month, dt.day + 1)
    ELSE IF dt.month < 12 THEN MkDate(dt.year, dt.month + 1, 1)
         ELSE MkDate(dt.year + 1, 1, 1)

PrevDay(dt) ==
    IF dt.day > 1
    THEN MkDate(dt.year, dt.month, dt.day - 1)
    ELSE IF dt.month > 1
         THEN MkDate(dt.year, dt.month - 1, DaysInMonth(dt.year, dt.month - 1))
         ELSE MkDate(dt.year - 1, 12, 31)

\* Timestamp + Timedelta(days=k), k of either sign.
RECURSIVE AddDays(_, _)
AddDays(dt, k) ==
    IF k = 0 THEN dt
    ELSE IF k > 0 THEN AddDays(NextDay(dt), k - 1)
         ELSE AddDays(PrevDay(dt), k + 1)

\* pd.to_datetime(s, format="%Y/%m/%d"): the fields must name a real date.
ToDatetime(s) ==
    IF ValidDate(s.year, s.month, s.day)
    THEN Returned(MkDate(s.year, s.month, s.day))
    ELSE Raised("ValueError")

\* Timestamp.replace(year=y): datetime validation of the new fields.
ReplaceYear(dt, y) ==
    IF ValidDate(y, dt.month, dt.day)
    THEN Returned(MkDate(y, dt.month, dt.day))
    ELSE Raised("ValueError")

-----------------------------------------------------------------------------
(* data_handling.py: filter_date and filter_years *)

\* filter_date with end one day short: the off-by-one a rewrite would make.
filter_date_short(date, d) ==
    LET t == ToDatetime(date)
    IN  IF t.kind = "raised" THEN t
        ELSE Returned(<<AddDays(t.value, 0 - d), AddDays(t.value, d - 1)>>)

filter_date(date, d) ==
    LET t == ToDatetime(date)
    IN  IF t.kind = "raised" THEN t
        ELSE Returned(<<AddDays(t.value, 0 - d), AddDays(t.value, d)>>)

\* The list comprehension of filter_years for i in range(from, n + 1): the first
\* replace() that raises ends the whole call.
RECURSIVE YearListFrom(_, _, _)
YearListFrom(dt, i, n) ==
    IF i > n THEN Returned(<< >>)
    ELSE LET r == ReplaceYear(dt, dt.year - i)
         IN  IF r.kind = "raised" THEN r
             ELSE LET rest == YearListFrom(dt, i + 1, n)
                  IN  IF rest.kind = "raised" THEN rest
                      ELSE Returned(<<r.value>> \o rest.value)

filter_years(date, n) ==
    LET t == ToDatetime(date)
    IN  IF t.kind = "raised" THEN t ELSE YearListFrom(t.value, 1, n)

-----------------------------------------------------------------------------
(* Floats that are quotients of small integers *)

\* count / total as numpy computes it: 0 / 0 is NaN (den = 0), with a warning.
Prob(n, d) == [num |-> n, den |-> d]

IsNaN(p) == p.den = 0

\* p > q on floats: every comparison with NaN is False.
Greater(p, q) == ~IsNaN(p) /\ ~IsNaN(q) /\ p.num * q.den > q.num * p.den

\* p == q on floats.
FloatEq(p, q) == ~IsNaN(p) /\ ~IsNaN(q) /\ p.num * q.den = q.num * p.den

\* round(float(p), 2), in hundredths: to the nearest, an exact half to the even
\* neighbour; NaN stays NaN.
Round2(p) ==
    IF IsNaN(p) THEN Prob(0, 0)
    ELSE LET n == 100 * p.num
             q == n \div p.den
             r == n % p.den
         IN  Prob(IF 2 * r > p.den \/ (2 * r = p.den /\ q % 2 = 1) THEN q + 1 ELSE q,
                  100)

-----------------------------------------------------------------------------
(* predict.py: classify_event *)

\* series[condition].count(): the rows the boolean mask selects.
MaskCount(s, cond) == Cardinality({i \in 1..Len(s) : cond[i]})

\* The loop of lines 17-20: one events entry per category, in dict order.
EventsOf(s, categories) ==
    [k \in 1..Len(categories) |->
        [label |-> categories[k].label,
         p     |-> Prob(MaskCount(s, categories[k].cond), Len(s))]]

\* max() keeping the LAST maximal key (>= in place of >).
RECURSIVE MaxKeyLastWins(_, _, _)
MaxKeyLastWins(events, best, k) ==
    IF k > Len(events) THEN best
    ELSE MaxKeyLastWins(events,
                        IF ~Greater(events[best].p, events[k].p) THEN k ELSE best,
                        k + 1)

\* max(events, key=events.get): walk the keys in dict order, keep the running
\* best and replace it only by a strictly greater one; returns the index.
RECURSIVE MaxKey(_, _, _)
MaxKey(events, best, k) ==
    IF k > Len(events) THEN best
    ELSE MaxKey(events,
                IF Greater(events[k].p, events[best].p) THEN k ELSE best,
                k + 1)

\* classify_event whose max() lets the last of the tied maxima win.
classify_event_last_wins(s, categories) ==
    LET events == EventsOf(s, categories)
        best   == MaxKeyLastWins(events, 1, 2)
    IN  [probability |-> events[best].p,
         status      |-> events[best].label,
         events      |-> events]

classify_event(s, categories) ==
    LET events == EventsOf(s, categories)
        best   == MaxKey(events, 1, 2)
    IN  [probability |-> events[best].p,
         status      |-> events[best].label,
         events      |-> events]

-----------------------------------------------------------------------------
(* predict.py: the five factor classifiers.  A category is a label and the *)
(* boolean mask of its condition over the column, as in the source's dict. *)

Cat(label, cond) == [label |-> label, cond |-> cond]

\* The temperature categories with "Hot" closed at 40 (temp <= 40), so that
\* 40.0 is both "Very Hot" and "Hot".
TemperatureCategoriesHotClosed(temp) ==
    << Cat("Very Hot",  [i \in 1..Len(temp) |-> temp[i] >= 400]),
       Cat("Hot",       [i \in 1..Len(temp) |-> temp[i] >= 350 /\ temp[i] <= 400]),
       Cat("Warm",      [i \in 1..Len(temp) |-> temp[i] >= 300 /\ temp[i] < 350]),
       Cat("Moderate",  [i \in 1..Len(temp) |-> temp[i] >= 200 /\ temp[i] <= 290]),
       Cat("Cool",      [i \in 1..Len(temp) |-> temp[i] >= 110 /\ temp[i] <= 190]),
       Cat("Cold",      [i \in 1..Len(temp) |-> temp[i] <= 100 /\ temp[i] > 50]),
       Cat("Very Cold", [i \in 1..Len(temp) |-> temp[i] <= 50]) >>

TemperatureCategories(temp) ==
    << Cat("Very Hot",  [i \in 1..Len(temp) |-> temp[i] >= 400]),
       Cat("Hot",       [i \in 1..Len(temp) |-> temp[i] >= 350 /\ temp[i] < 400]),
       Cat("Warm",      [i \in 1..Len(temp) |-> temp[i] >= 300 /\ temp[i] < 350]),
       Cat("Moderate",  [i \in 1..Len(temp) |-> temp[i] >= 200 /\ temp[i] <= 290]),
       Cat("Cool",      [i \in 1..Len(temp) |-> temp[i] >= 110 /\ temp[i] <= 190]),
       Cat("Cold",      [i \in 1..Len(temp) |-> temp[i] <= 100 /\ temp[i] > 50]),
       Cat("Very Cold", [i \in 1..Len(temp) |-> temp[i] <= 50]) >>

check_temperature(temp) == classify_event(temp, TemperatureCategories(temp))

HumidityCategories(rh) ==
    << Cat("Comfortable",        [i \in 1..Len(rh) |-> rh[i] < 600]),
       Cat("Humid",              [i \in 1..Len(rh) |-> rh[i] >= 600 /\ rh[i] < 800]),
       Cat("Very Uncomfortable", [i \in 1..Len(rh) |-> rh[i] >= 800]) >>

check_humidity(rh) == classify_event(rh, HumidityCategories(rh))

PrecipitationCategories(precip) ==
    << Cat("Low",      [i \in 1..Len(precip) |-> precip[i] > 0 /\ precip[i] <= 20]),
       Cat("Moderate", [i \in 1..Len(precip) |-> precip[i] > 20 /\ precip[i] <= 100]),
       Cat("High",     [i \in 1..Len(precip) |-> precip[i] > 100]) >>

\* (precip == 0).all() is True of the empty column too.
check_precipitation(precip) ==
    IF \A i \in 1..Len(precip) : precip[i] = 0
    THEN [probability |-> Prob(0, 1),
          status      |-> "None",
          events      |-> << [label |-> "None", p |-> Prob(1, 1)] >>]
    ELSE classify_event(precip, PrecipitationCategories(precip))

WindCategories(wind) ==
    << Cat("Calm",       [i \in 1..Len(wind) |-> wind[i] < 30]),
       Cat("Breezy",     [i \in 1..Len(wind) |-> wind[i] >= 30 /\ wind[i] < 60]),
       Cat("Windy",      [i \in 1..Len(wind) |-> wind[i] >= 60 /\ wind[i] < 100]),
       Cat("Very Windy", [i \in 1..Len(wind) |-> wind[i] >= 100]) >>

check_wind(wind) == classify_event(wind, WindCategories(wind))

HeatIndexCategories(hi) ==
    << Cat("Safe",            [i \in 1..Len(hi) |-> hi[i] < 270]),
       Cat("Caution",         [i \in 1..Len(hi) |-> hi[i] >= 270 /\ hi[i] < 320]),
       Cat("Extreme Caution", [i \in 1..Len(hi) |-> hi[i] >= 320 /\ hi[i] < 410]),
       Cat("Danger",          [i \in 1..Len(hi) |-> hi[i] >= 410 /\ hi[i] < 540]),
       Cat("Extreme Danger",  [i \in 1..Len(hi) |-> hi[i] >= 540]) >>

check_heat_index(hi) == classify_event(hi, HeatIndexCategories(hi))

\* factor_functions of get_predictions, in its dict order.
Factors ==
    <<"Precipitation", "Temperature", "Wind_Speed", "Relative_Humidity", "Heat_Index">>

FactorFunction(f, s) ==
    CASE f = "Precipitation"     -> check_precipitation(s)
      [] f = "Temperature"       -> check_temperature(s)
      [] f = "Wind_Speed"        -> check_wind(s)
      [] f = "Relative_Humidity" -> check_humidity(s)
      [] f = "Heat_Index"        -> check_heat_index(s)

\* The categories a factor declares for a column (check_precipitation's are
\* those of its general branch).
DeclaredCategories(f, s) ==
    CASE f = "Precipitation"     -> PrecipitationCategories(s)
      [] f = "Temperature"       -> TemperatureCategories(s)
      [] f = "Wind_Speed"        -> WindCategories(s)
      [] f = "Relative_Humidity" -> HumidityCategories(s)
      [] f = "Heat_Index"        -> HeatIndexCategories(s)

\* stats[factor] of get_predictions: the classifier's triple, rounded.
PredictionEntry(f, s) ==
    LET r == FactorFunction(f, s)
    IN  [Probability  |-> Round2(r.probability),
         Status       |-> r.status,
         Distribution |-> [k \in 1..Len(r.events) |->
                              [label |-> r.events[k].label,
                               p     |-> Round2(r.events[k].p)]]]

-----------------------------------------------------------------------------
(* output_formatting.py: get_column_statistics.  A statistic is a quotient *)
(* in hundredths after .round(2) (Prob(n, 100)), NaN being Prob(0, 0).     *)

NaN == Prob(0, 0)

\* A pandas Series: its dtype and its values in tenths.
MkSeries(dtype, values) == [is_series |-> TRUE, dtype |-> dtype, values |-> values]

\* The nearest integer to 100 * n / d (d > 0), an exact half to the even one.
RoundHundredths(n, d) ==
    LET q == (100 * n) \div d
        r == (100 * n) % d
    IN  IF 2 * r > d \/ (2 * r = d /\ q % 2 = 1) THEN q + 1 ELSE q

RECURSIVE SumSeq(_)
SumSeq(xs) == IF xs = << >> THEN 0 ELSE Head(xs) + SumSeq(Tail(xs))

RECURSIVE SumSquares(_)
SumSquares(xs) ==
    IF xs = << >> THEN 0 ELSE Head(xs) * Head(xs) + SumSquares(Tail(xs))

RECURSIVE Insert(_, _)
Insert(x, xs) ==
    IF xs = << >> THEN <<x>>
    ELSE IF x <= Head(xs) THEN <<x>> \o xs
         ELSE <<Head(xs)>> \o Insert(x, Tail(xs))

RECURSIVE SortAsc(_)
SortAsc(xs) == IF xs = << >> THEN << >> ELSE Insert(Head(xs), SortAsc(Tail(xs)))

\* The greatest c in lo..hi with (2c - 1)^2 <= q: the nearest integer to
\* sqrt(q / 4).
RECURSIVE NearestRoot(_, _, _)
NearestRoot(q, lo, hi) ==
    IF lo = hi THEN lo
    ELSE LET mid == (lo + hi + 1) \div 2
         IN  IF (2 * mid - 1) * (2 * mid - 1) <= q
             THEN NearestRoot(q, mid, hi)
             ELSE NearestRoot(q, lo, mid - 1)

\* Series.std() (ddof = 1) of n >= 2 sorted values in tenths, in hundredths:
\* sqrt(100 * (n * sum(y^2) - sum(y)^2) / (n * (n - 1))) with y = x - min.
SampleStd(sorted) ==
    LET n  == Len(sorted)
        ys == [k \in 1..n |-> sorted[k] - sorted[1]]
        a  == n * SumSquares(ys) - SumSeq(ys) * SumSeq(ys)
    IN  NearestRoot((400 * a) \div (n * (n - 1)), 0, 10 * ys[n] + 1)

\* Series.quantile(k/4), linear interpolation, of the sorted values (tenths):
\* numerator over 40 units.
Quartile(sorted, k) ==
    LET h    == (Len(sorted) - 1) * k
        lo   == h \div 4
        frac == h % 4
        a    == sorted[lo + 1]
        b    == IF frac = 0 THEN a ELSE sorted[lo + 2]
    IN  4 * a + frac * (b - a)

\* Series.describe().round(2).to_dict() of a numeric column: on no rows the
\* count is 0 and every other statistic NaN; the sample std of one row is NaN.
Describe(xs) ==
    LET n      == Len(xs)
        sorted == SortAsc(xs)
        sum    == SumSeq(xs)
        hund(v) == Prob(v, 100)
    IN  IF n = 0
        THEN [count |-> hund(0), mean |-> NaN, std |-> NaN, min |-> NaN,
              p25 |-> NaN, p50 |-> NaN, p75 |-> NaN, max |-> NaN]
        ELSE [count |-> hund(100 * n),
              mean  |-> hund(RoundHundredths(sum, 10 * n)),
              std   |-> IF n = 1 THEN NaN ELSE hund(SampleStd(sorted)),
              min   |-> hund(10 * sorted[1]),
              p25   |-> hund(RoundHundredths(Quartile(sorted, 1), 40)),
              p50   |-> hund(RoundHundredths(Quartile(sorted, 2), 40)),
              p75   |-> hund(RoundHundredths(Quartile(sorted, 3), 40)),
              max   |-> hund(10 * sorted[n])]

\* max - min on floats, rounded: NaN when either is.
RangeOf(st) ==
    IF IsNaN(st.max) \/ IsNaN(st.min) THEN NaN
    ELSE Prob(st.max.num - st.min.num, 100)

\* A non-Series is refused; describe() of an object column has no "max" key
\* (count, unique, top, freq), so line 52 raises; a numeric column, empty or
\* not, yields the dictionary.
get_column_statistics(d) ==
    IF ~d.is_series THEN Raised("TypeError")
    ELSE IF d.dtype = "object" THEN Raised("KeyError")
    ELSE LET st == Describe(d.values)
         IN  Returned([count |-> st.count, mean |-> st.mean, std |-> st.std,
                       min |-> st.min, p25 |-> st.p25, p50 |-> st.p50,
                       p75 |-> st.p75, max |-> st.max, range |-> RangeOf(st)])

-----------------------------------------------------------------------------
(* data_fetching.py: the provider and the DataFrame it is turned into.     *)
(* A DataFrame is [columns, rows]: columns is FALSE for pd.DataFrame(),    *)
(* which has no column at all; a row maps column names to tenths.          *)

None == [kind |-> "none"]

EmptyFrame == [columns |-> FALSE, rows |-> << >>]

\* The inclusive run of dates start..end, one per day.
RECURSIVE DateRange(_, _)
DateRange(start, end) ==
    IF ToOrdinal(start) > ToOrdinal(end) THEN << >>
    ELSE <<start>> \o DateRange(NextDay(start), end)

\* The two daily observations the provider's dataset is made of, on alternate
\* days.
HotDay(d) ==
    [Date |-> d, Precipitation |-> 50, Temperature |-> 320, WindSpeed2m |-> 45,
     WindSpeed10m |-> 60, RelativeHumidity |-> 700, SpecificHumidity |-> 180]

CoolDay(d) ==
    [Date |-> d, Precipitation |-> 0, Temperature |-> 105, WindSpeed2m |-> 10,
     WindSpeed10m |-> 20, RelativeHumidity |-> 550, SpecificHumidity |-> 50]

\* What requests.get may answer: a non-200 status, or status 200 with one value
\* per variable and day of the range.
FetchOutcomes == {"http_error", "ok"}

\* fetch_data: the parsed JSON (here its rows), or None after a non-200 status.
fetch_data(outcome, start, end) ==
    IF outcome = "http_error" THEN None
    ELSE [kind |-> "json",
          days |-> LET ds == DateRange(start, end)
                   IN  [k \in 1..Len(ds) |->
                          IF ToOrdinal(ds[k]) % 2 = 1
                          THEN HotDay(ds[k]) ELSE CoolDay(ds[k])]]

\* process_data: None becomes the DataFrame without columns.
process_data(raw) ==
    IF raw = None THEN EmptyFrame
    ELSE [columns |-> TRUE, rows |-> raw.days]

\* The float64 columns process_data builds; Date is datetime64.
NumericColumns ==
    {"Precipitation", "Temperature", "WindSpeed2m", "WindSpeed10m",
     "RelativeHumidity", "SpecificHumidity"}

\* A cell the provider sent no number for (NaN in the column).
Missing == -99999

Column(df, c) == [k \in 1..Len(df.rows) |-> df.rows[k][c]]

\* df[col].mean(): over the cells that are not missing, to the nearest tenth;
\* Missing when there is none.
ColumnMean(col) ==
    LET present == SelectSeq(col, LAMBDA v : v # Missing)
    IN  IF present = << >> THEN Missing
        ELSE RoundHundredths(SumSeq(present), 100 * Len(present))

\* clean_data with fillna(0) in place of fillna(mean).
clean_data_zero_fill(df) ==
    IF ~df.columns THEN df
    ELSE [df EXCEPT !.rows =
            [k \in 1..Len(df.rows) |->
                [c \in DOMAIN df.rows[k] |->
                    IF c \in NumericColumns /\ df.rows[k][c] = Missing
                    THEN 0
                    ELSE df.rows[k][c]]]]

\* clean_data: fillna(mean) on every numeric column; the frame without columns
\* has none to loop over.
clean_data(df) ==
    IF ~df.columns THEN df
    ELSE [df EXCEPT !.rows =
            [k \in 1..Len(df.rows) |->
                [c \in DOMAIN df.rows[k] |->
                    IF c \in NumericColumns /\ df.rows[k][c] = Missing
                    THEN ColumnMean(Column(df, c))
                    ELSE df.rows[k][c]]]]

format_data(outcome, start, end) ==
    clean_data(process_data(fetch_data(outcome, start, end)))

\* Entries the memo of format_data_cached holds before it evicts (the source's
\* capacity is not in the repository; the model explores a small one).
CacheCap == 1

Location == [lat |-> 248, lon |-> 680]

CacheKey(lat, lon, start, end) == <<lat, lon, start, end>>

CacheHit(key) == \E k \in 1..Len(cache) : cache[k].key = key

CacheGet(key) == (CHOOSE k \in 1..Len(cache) : cache[k].key = key)

\* The memo after a call with `key` that returned `df`: the entry becomes the
\* most recently used, and the least recently used one is evicted when full.
CacheAfter(key, df) ==
    LET others == SelectSeq(cache, LAMBDA e : e.key # key)
        all    == Append(others, [key |-> key, df |-> df])
    IN  IF Len(all) > CacheCap THEN Tail(all) ELSE all

\* format_data_cached(lat, lon, start, end): format_data behind the memo.
format_data_cached(outcome, lat, lon, start, end) ==
    LET key == CacheKey(lat, lon, start, end)
    IN  IF CacheHit(key) THEN cache[CacheGet(key)].df
        ELSE format_data(outcome, start, end)

-----------------------------------------------------------------------------
(* data_handling.py: calculate_heat_index and the body of the year loop *)

\* The Rothfusz polynomial of lines 15-21, tabulated to the nearest tenth of a
\* degree for the (temperature, humidity) pairs of the provider's datasets.
calculate_heat_index(temp_c, rel_humid) ==
    CASE temp_c = 320 /\ rel_humid = 700 -> 404
      [] temp_c = 105 /\ rel_humid = 550 -> 366

\* df["Heat Index"] = calculate_heat_index(df[temperature], df[humidity])
WithHeatIndex(df) ==
    [df EXCEPT !.rows =
        [k \in 1..Len(df.rows) |->
            [Date |-> df.rows[k].Date,
             Precipitation    |-> df.rows[k].Precipitation,
             Temperature      |-> df.rows[k].Temperature,
             WindSpeed2m      |-> df.rows[k].WindSpeed2m,
             WindSpeed10m     |-> df.rows[k].WindSpeed10m,
             RelativeHumidity |-> df.rows[k].RelativeHumidity,
             SpecificHumidity |-> df.rows[k].SpecificHumidity,
             HeatIndex |-> calculate_heat_index(df.rows[k].Temperature,
                                                df.rows[k].RelativeHumidity)]]]

\* The column of the DataFrame each factor's classifier reads.
FactorColumn(f) ==
    CASE f = "Precipitation"     -> "Precipitation"
      [] f = "Temperature"       -> "Temperature"
      [] f = "Wind_Speed"        -> "WindSpeed2m"
      [] f = "Relative_Humidity" -> "RelativeHumidity"
      [] f = "Heat_Index"        -> "HeatIndex"

FactorSet == {Factors[k] : k \in 1..Len(Factors)}

\* get_predictions(df): one rounded classification per factor.
get_predictions(df) ==
    [f \in FactorSet |-> PredictionEntry(f, Column(df, FactorColumn(f)))]

\* {**get_column_statistics(df[column]), **stats[factor]} of lines 101-105: the
\* keys of both dictionaries, those of stats[factor] winning.
FactorSummary(df, f, stats) ==
    stats[f] @@ get_column_statistics(MkSeries("float64", Column(df, FactorColumn(f)))).value

\* The dictionary appended to yearly_data for one year (lines 95-107).
YearRecord(date, start, end, df) ==
    LET stats == get_predictions(df)
    IN  [Year  |-> date.year,
         Date  |-> date,
         Start |-> start,
         End   |-> end,
         DataFrame |-> df]
        @@ [f \in FactorSet |-> FactorSummary(df, f, stats)]

\* pd.concat(frames, ignore_index=True): the rows of the frames in list order.
RECURSIVE ConcatRows(_)
ConcatRows(frames) ==
    IF frames = << >> THEN << >>
    ELSE Head(frames).rows \o ConcatRows(Tail(frames))

-----------------------------------------------------------------------------
(* output_formatting.py: the final statistics and the JSON documents *)

StatColumns ==
    {"Precipitation", "Temperature", "WindSpeed2m", "WindSpeed10m",
     "RelativeHumidity", "SpecificHumidity", "HeatIndex"}

get_dataframe_statistics(df) ==
    [c \in StatColumns |->
        get_column_statistics(MkSeries("float64", Column(df, c))).value]

get_final_statistics(df) ==
    [Statistics  |-> get_dataframe_statistics(df),
     Predictions |-> get_predictions(df)]

\* json.dumps(obj): the text of obj.
JsonDumps(obj) == [kind |-> "json_text", of |-> obj]

\* json.loads(text)
JsonLoads(text) == text.of

\* construct_json with include_raw left False: DataFrame is null everywhere.
construct_json(full_df, yearly_data, full_stats) ==
    [full_json |->
        JsonDumps([Statistics  |-> full_stats.Statistics,
                   Predictions |-> full_stats.Predictions,
                   DataFrame   |-> None]),
     yearly_json |->
        JsonDumps([k \in 1..Len(yearly_data) |->
                      [yearly_data[k] EXCEPT !.DataFrame = None]])]

return_to_mainframe(stats) == JsonDumps(stats)

-----------------------------------------------------------------------------
(* main.py: the service.  FastAPI runs each `def` endpoint on a thread of  *)
(* its pool, so the handlers of different requests interleave; a handler's *)
(* step is atomic up to its next blocking call or store to app.state.      *)

Workers == 1..NumWorkers

\* The bodies a client may POST: Data(target_date, lat, lon, days, years).
PostDates == {MkDate(FirstYear, 2, 29), MkDate(FirstYear, 3, 1)}

PostBodies ==
    [target_date : PostDates, lat : {Location.lat}, lon : {Location.lon},
     days : 0..MaxPostDays, years : 0..MaxPostYears]

NoBody == [target_date |-> MkDate(FirstYear, 1, 1), lat |-> 0, lon |-> 0,
           days |-> 0, years |-> 0]

\* A worker with no request.
IdleHandler ==
    [pc |-> "idle", endpoint |-> "none", data |-> NoBody,
     dates |-> << >>, i |-> 1, fetch_log |-> << >>,
     combined_data |-> << >>, yearly_data |-> << >>,
     agg |-> NotCalled, final_stats |-> None, full_json |-> None,
     yearly_json |-> None, response |-> None]

\* An uncaught exception in an endpoint: the framework answers 500.
ServerError == [status |-> 500, body |-> "Internal Server Error"]

NoProcessedData ==
    [status |-> 400,
     body |-> "No processed data available. Run the POST endpoint first."]

SvcInit ==
    /\ app_state = [full_json |-> None, yearly_json |-> None, final_stats |-> None]
    /\ cache = << >>
    /\ handler = [w \in Workers |-> IdleHandler]
    /\ posts = 0

\* results(data), up to the loop of get_combined_dataframe: filter_years runs
\* first and may raise.
PostBegin(w) ==
    /\ handler[w].pc = "idle"
    /\ posts < MaxPosts
    /\ \E body \in PostBodies :
         LET fy == filter_years(body.target_date, body.years)
         IN  handler' = [handler EXCEPT ![w] =
                IF fy.kind = "raised"
                THEN [IdleHandler EXCEPT !.pc = "done", !.endpoint = "post",
                                         !.data = body, !.agg = fy,
                                         !.response = ServerError]
                ELSE [IdleHandler EXCEPT !.pc = "loop", !.endpoint = "post",
                                         !.data = body, !.dates = fy.value]]
    /\ posts' = posts + 1
    /\ UNCHANGED <<app_state, cache>>
    /\ UNCHANGED notSvcVars

\* One pass of the loop of get_combined_dataframe that skips a year whose
\* frame has no columns instead of raising.
AggFetchYearSkipsFailure(w) ==
    LET h == handler[w]
    IN  /\ h.pc = "loop"
        /\ h.i <= Len(h.dates)
        /\ \E outcome \in FetchOutcomes :
             LET date == h.dates[h.i]
                 win  == filter_date(date, h.data.days).value
                 key  == CacheKey(h.data.lat, h.data.lon, win[1], win[2])
                 df   == format_data_cached(outcome, h.data.lat, h.data.lon, win[1], win[2])
                 hi   == WithHeatIndex(df)
             IN  /\ cache' = CacheAfter(key, df)
                 /\ handler' = [handler EXCEPT ![w] =
                      IF ~df.columns
                      THEN [h EXCEPT !.fetch_log = Append(@, "failed"), !.i = @ + 1]
                      ELSE [h EXCEPT !.fetch_log = Append(@, "ok"),
                                     !.yearly_data =
                                         Append(@, YearRecord(date, win[1], win[2], hi)),
                                     !.combined_data = Append(@, hi),
                                     !.i = @ + 1]]
        /\ UNCHANGED <<app_state, posts>>
        /\ UNCHANGED notSvcVars

\* One pass of the loop of get_combined_dataframe (lines 87-109): the window,
\* the fetch, the heat index, the year's record.  Reading the temperature
\* column of a frame without columns raises KeyError, which ends the request.
AggFetchYear(w) ==
    LET h == handler[w]
    IN  /\ h.pc = "loop"
        /\ h.i <= Len(h.dates)
        /\ \E outcome \in FetchOutcomes :
             LET date == h.dates[h.i]
                 win  == filter_date(date, h.data.days).value
                 key  == CacheKey(h.data.lat, h.data.lon, win[1], win[2])
                 df   == format_data_cached(outcome, h.data.lat, h.data.lon, win[1], win[2])
                 hi   == WithHeatIndex(df)
             IN  /\ cache' = CacheAfter(key, df)
                 /\ handler' = [handler EXCEPT ![w] =
                      IF ~df.columns
                      THEN [h EXCEPT !.pc = "done",
                                     !.fetch_log = Append(@, "failed"),
                                     !.agg = Raised("KeyError"),
                                     !.response = ServerError]
                      ELSE [h EXCEPT !.fetch_log = Append(@, "ok"),
                                     !.yearly_data =
                                         Append(@, YearRecord(date, win[1], win[2], hi)),
                                     !.combined_data = Append(@, hi),
                                     !.i = @ + 1]]
        /\ UNCHANGED <<app_state, posts>>
        /\ UNCHANGED notSvcVars

\* After the loop: pd.concat (which raises on an empty list), the return of
\* get_combined_dataframe, get_final_statistics and construct_json.
AggConcat(w) ==
    LET h == handler[w]
    IN  /\ h.pc = "loop"
        /\ h.i > Len(h.dates)
        /\ handler' = [handler EXCEPT ![w] =
             IF h.combined_data = << >>
             THEN [h EXCEPT !.pc = "done", !.agg = Raised("ValueError"),
                            !.response = ServerError]
             ELSE LET final_df == [columns |-> TRUE, rows |-> ConcatRows(h.combined_data)]
                      stats    == get_final_statistics(final_df)
                      docs     == construct_json(final_df, h.yearly_data, stats)
                  IN  [h EXCEPT !.pc = "store_full",
                                !.agg = Returned([final_df |-> final_df,
                                                  yearly_data |-> h.yearly_data]),
                                !.final_stats = stats,
                                !.full_json = docs.full_json,
                                !.yearly_json = docs.yearly_json]]
        /\ UNCHANGED <<app_state, cache, posts>>
        /\ UNCHANGED notSvcVars

\* app.state.full_json = full_json
StoreFullJson(w) ==
    /\ handler[w].pc = "store_full"
    /\ app_state' = [app_state EXCEPT !.full_json = handler[w].full_json]
    /\ handler' = [handler EXCEPT ![w].pc = "store_yearly"]
    /\ UNCHANGED <<cache, posts>>
    /\ UNCHANGED notSvcVars

\* app.state.yearly_json = yearly_json
StoreYearlyJson(w) ==
    /\ handler[w].pc = "store_yearly"
    /\ app_state' = [app_state EXCEPT !.yearly_json = handler[w].yearly_json]
    /\ handler' = [handler EXCEPT ![w].pc = "store_stats"]
    /\ UNCHANGED <<cache, posts>>
    /\ UNCHANGED notSvcVars

\* app.state.final_stats = final_stats, then the return of results().
StoreFinalStats(w) ==
    /\ handler[w].pc = "store_stats"
    /\ app_state' = [app_state EXCEPT !.final_stats = handler[w].final_stats]
    /\ handler' = [handler EXCEPT ![w].pc = "done",
                                  ![w].response =
                                      [status |-> 200,
                                       body |-> return_to_mainframe(handler[w].final_stats)]]
    /\ UNCHANGED <<cache, posts>>
    /\ UNCHANGED notSvcVars

\* GET /full_json/download
DownloadFullJson(w) ==
    /\ handler[w].pc = "idle"
    /\ handler' = [handler EXCEPT ![w] =
         [IdleHandler EXCEPT
            !.pc = "done", !.endpoint = "full_json",
            !.response = IF app_state.full_json = None THEN NoProcessedData
                         ELSE [status |-> 200, body |-> JsonLoads(app_state.full_json)]]]
    /\ UNCHANGED <<app_state, cache, posts>>
    /\ UNCHANGED notSvcVars

\* GET /yearly_data/download
DownloadYearlyJson(w) ==
    /\ handler[w].pc = "idle"
    /\ handler' = [handler EXCEPT ![w] =
         [IdleHandler EXCEPT
            !.pc = "done", !.endpoint = "yearly_data",
            !.response = IF app_state.yearly_json = None THEN NoProcessedData
                         ELSE [status |-> 200, body |-> JsonLoads(app_state.yearly_json)]]]
    /\ UNCHANGED <<app_state, cache, posts>>
    /\ UNCHANGED notSvcVars

\* The response is sent and the thread goes back to the pool.
Respond(w) ==
    /\ handler[w].pc = "done"
    /\ handler' = [handler EXCEPT ![w] = IdleHandler]
    /\ UNCHANGED <<app_state, cache, posts>>
    /\ UNCHANGED notSvcVars

Next ==
    \E w \in Workers :
        \/ PostBegin(w)
        \/ AggFetchYear(w)
        \/ AggConcat(w)
        \/ StoreFullJson(w)
        \/ StoreYearlyJson(w)
        \/ StoreFinalStats(w)
        \/ DownloadFullJson(w)
        \/ DownloadYearlyJson(w)
        \/ Respond(w)

-----------------------------------------------------------------------------
(* Classifier harness: a factor and its column drawn in Init *)

\* Observations explored per factor, in tenths: at least one value inside every
\* declared category and one between each pair of neighbouring thresholds.
SampleValues(f) ==
    CASE f = "Precipitation"     -> {0, 10, 20, 50, 150}
      [] f = "Temperature"       -> {30, 80, 105, 150, 195, 250, 295, 320, 370, 420}
      [] f = "Wind_Speed"        -> {10, 30, 45, 80, 120}
      [] f = "Relative_Humidity" -> {300, 600, 700, 800, 950}
      [] f = "Heat_Index"        -> {200, 270, 300, 350, 450, 600}

RECURSIVE SeqsUpTo(_, _)
SeqsUpTo(S, n) ==
    IF n = 0 THEN {<< >>}
    ELSE LET shorter == SeqsUpTo(S, n - 1)
         IN  shorter \cup { Append(q, v) : q \in shorter, v \in S }

\* Largest magnitude, in tenths, of the single observations explored: every
\* value from -MaxTenths to MaxTenths, all thresholds of predict.py included.
MaxTenths == 700

\* A column of one observation, for each factor and each value of the range.
CategoriesInit ==
    /\ factor \in {Factors[k] : k \in 1..Len(Factors)}
    /\ series \in { <<v>> : v \in (0 - MaxTenths)..MaxTenths }
    /\ cls_ret = NotCalled
    /\ pred_ret = NotCalled

ClsInit ==
    /\ factor \in {Factors[k] : k \in 1..Len(Factors)}
    /\ series \in SeqsUpTo(SampleValues(factor), MaxLen)
    /\ cls_ret = NotCalled
    /\ pred_ret = NotCalled

CallCheck(f) ==
    /\ factor = f
    /\ cls_ret = NotCalled
    /\ cls_ret' = Returned(FactorFunction(f, series))
    /\ UNCHANGED <<factor, series, pred_ret>>
    /\ UNCHANGED notClsVars

CheckPrecipitation == CallCheck("Precipitation")

CheckTemperature == CallCheck("Temperature")

CheckWind == CallCheck("Wind_Speed")

CheckHumidity == CallCheck("Relative_Humidity")

CheckHeatIndex == CallCheck("Heat_Index")

GetPredictions ==
    /\ pred_ret = NotCalled
    /\ pred_ret' = Returned(PredictionEntry(factor, series))
    /\ UNCHANGED <<factor, series, cls_ret>>
    /\ UNCHANGED notClsVars

ClsNext ==
    \/ CheckPrecipitation
    \/ CheckTemperature
    \/ CheckWind
    \/ CheckHumidity
    \/ CheckHeatIndex
    \/ GetPredictions

-----------------------------------------------------------------------------
(* Statistics harness: the argument drawn in Init *)

\* float64 columns of up to MaxLen observations, the empty object column that
\* a DataFrame built from empty lists holds, and an argument that is no Series.
StatInputs ==
    { MkSeries("float64", xs) : xs \in SeqsUpTo({0, 10, 25, 105, 300}, MaxLen) }
        \cup { MkSeries("object", << >>),
               [is_series |-> FALSE, dtype |-> "list", values |-> <<10, 20>>] }

StatInit ==
    /\ data \in StatInputs
    /\ stat_ret = NotCalled

CallColumnStatistics ==
    /\ stat_ret = NotCalled
    /\ stat_ret' = get_column_statistics(data)
    /\ UNCHANGED data
    /\ UNCHANGED notStatVars

StatNext == CallColumnStatistics

-----------------------------------------------------------------------------
(* Cleaning harness: the frame process_data built, drawn in Init *)

\* What the provider may send for a day's temperature and precipitation: a
\* number, or nothing (NaN in the float64 column).
CleanTemperatures == {Missing, 105, 320}

CleanPrecipitations == {Missing, 0, 50}

\* Frames of up to MaxLen consecutive days; the other four variables are
\* those of CoolDay.
CleanFrames ==
    UNION { { [columns |-> TRUE,
               rows |-> [k \in 1..n |->
                           [CoolDay(AddDays(MkDate(FirstYear, 1, 1), k - 1))
                              EXCEPT !.Temperature = ts[k],
                                     !.Precipitation = ps[k]]]] :
              ts \in [1..n -> CleanTemperatures], ps \in [1..n -> CleanPrecipitations] } :
            n \in 0..MaxLen }

CleanInit ==
    /\ frame \in CleanFrames
    /\ clean_ret = NotCalled

CallCleanData ==
    /\ clean_ret = NotCalled
    /\ clean_ret' = Returned(clean_data(frame))
    /\ UNCHANGED frame
    /\ UNCHANGED notCleanVars

CleanNext == CallCleanData

-----------------------------------------------------------------------------
(* Window generator harness: inputs drawn in Init, one action per function *)

\* Field triples a caller may send: every real date of the months around the
\* year boundary and the leap day, plus strings that name no date.
DateInputs ==
    { MkDate(y, m, d) : y \in FirstYear..(FirstYear + YearSpan),
                        m \in {1, 2, 3, 12}, d \in {1, 15, 28, 29, 30, 31} }

DatesInit ==
    /\ target_date \in DateInputs
    /\ years \in 0..MaxYears
    /\ days \in 0..MaxDays
    /\ fy_ret = NotCalled
    /\ fd_ret = NotCalled

CallFilterYears ==
    /\ fy_ret = NotCalled
    /\ fy_ret' = filter_years(target_date, years)
    /\ UNCHANGED <<target_date, years, days, fd_ret>>
    /\ UNCHANGED notDateVars

CallFilterDate ==
    /\ fd_ret = NotCalled
    /\ fd_ret' = filter_date(target_date, days)
    /\ UNCHANGED <<target_date, years, days, fy_ret>>
    /\ UNCHANGED notDateVars

DatesNext == CallFilterYears \/ CallFilterDate

-----------------------------------------------------------------------------
(* Specifications: each harness runs with the other ones parked *)

DatesParked ==
    /\ target_date = MkDate(FirstYear, 1, 1)
    /\ years = 0
    /\ days = 0
    /\ fy_ret = NotCalled
    /\ fd_ret = NotCalled

ClsParked ==
    /\ factor = "Temperature"
    /\ series = << >>
    /\ cls_ret = NotCalled
    /\ pred_ret = NotCalled

StatParked ==
    /\ data = MkSeries("float64", << >>)
    /\ stat_ret = NotCalled

CleanParked ==
    /\ frame = EmptyFrame
    /\ clean_ret = NotCalled

InitDates == DatesInit /\ ClsParked /\ StatParked /\ CleanParked /\ SvcInit

SpecDates == InitDates /\ [][DatesNext]_vars

InitClassify == ClsInit /\ DatesParked /\ StatParked /\ CleanParked /\ SvcInit

SpecClassify == InitClassify /\ [][ClsNext]_vars

InitCategories ==
    CategoriesInit /\ DatesParked /\ StatParked /\ CleanParked /\ SvcInit

SpecCategories == InitCategories /\ [][ClsNext]_vars

InitStats == StatInit /\ DatesParked /\ ClsParked /\ CleanParked /\ SvcInit

InitClean == CleanInit /\ DatesParked /\ ClsParked /\ StatParked /\ SvcInit

SpecClean == InitClean /\ [][CleanNext]_vars

SpecStats == InitStats /\ [][StatNext]_vars

Init == SvcInit /\ DatesParked /\ ClsParked /\ StatParked /\ CleanParked

\* The service with its pool of worker threads.
Spec == Init /\ [][Next]_vars

\* One request at a time, as program.py's main() runs the pipeline and as the
\* service does while a single worker is busy.
NextAggregate ==
    \/ PostBegin(1)
    \/ AggFetchYear(1)
    \/ AggConcat(1)
    \/ StoreFullJson(1)
    \/ StoreYearlyJson(1)
    \/ StoreFinalStats(1)
    \/ DownloadFullJson(1)
    \/ DownloadYearlyJson(1)
    \/ Respond(1)

SpecAggregate == Init /\ [][NextAggregate]_vars

-----------------------------------------------------------------------------
(* Properties of the classifiers (checked under SpecClassify) *)

\* The call went through classify_event: every classifier except
\* check_precipitation on an all-zero column.
UsesClassifyEvent ==
    ~(factor = "Precipitation" /\ \A i \in 1..Len(series) : series[i] = 0)

\* The sum of the probabilities of events[k..], as a quotient.
RECURSIVE SumFrom(_, _)
SumFrom(events, k) ==
    IF k > Len(events) THEN Prob(0, 1)
    ELSE LET rest == SumFrom(events, k + 1)
         IN  Prob(events[k].p.num * rest.den + rest.num * events[k].p.den,
                  events[k].p.den * rest.den)

InUnitInterval(p) == ~IsNaN(p) /\ p.num >= 0 /\ p.num <= p.den

\* Row i of the column satisfies none of the factor's declared predicates.
Unclassifiable(i) ==
    LET cats == DeclaredCategories(factor, series)
    IN  \A k \in 1..Len(cats) : ~cats[k].cond[i]

\* C1: for every non-empty series and each of the five classifiers, every
\* probability of the returned mapping is in [0,1] and the probabilities sum
\* to 1.
C1_ProbabilitiesSumToOne ==
    (cls_ret.kind = "returned" /\ Len(series) >= 1) =>
        LET ev == cls_ret.value.events
        IN  /\ \A k \in 1..Len(ev) : InUnitInterval(ev[k].p)
            /\ FloatEq(SumFrom(ev, 1), Prob(1, 1))

\* C2: check_precipitation on an all-zero series returns the distribution
\* {"None": 1.0}, dominant label "None" and dominant probability 1.0, the
\* probability being the distribution's entry for the label, also after
\* get_predictions has rounded it.
C2_AllZeroPrecipitationIsNone ==
    (factor = "Precipitation" /\ Len(series) >= 1
        /\ \A i \in 1..Len(series) : series[i] = 0) =>
        /\ cls_ret.kind = "returned" =>
              /\ cls_ret.value.events = << [label |-> "None", p |-> Prob(1, 1)] >>
              /\ cls_ret.value.status = "None"
              /\ FloatEq(cls_ret.value.probability, Prob(1, 1))
              /\ FloatEq(cls_ret.value.probability, cls_ret.value.events[1].p)
        /\ pred_ret.kind = "returned" =>
              /\ pred_ret.value.Status = "None"
              /\ FloatEq(pred_ret.value.Probability, Prob(1, 1))
              /\ FloatEq(pred_ret.value.Probability, pred_ret.value.Distribution[1].p)

\* C3: the dominant label classify_event returns is a category no other
\* category's probability exceeds, its returned probability is that category's,
\* and every category declared before it has a strictly smaller probability
\* (the earliest of the tied maxima wins).
C3_DominantIsFirstMaximum ==
    (cls_ret.kind = "returned" /\ UsesClassifyEvent) =>
        LET r  == cls_ret.value
            ev == r.events
        IN  \E k \in 1..Len(ev) :
                /\ ev[k].label = r.status
                /\ ev[k].p = r.probability
                /\ \A j \in 1..Len(ev) : ~Greater(ev[j].p, ev[k].p)
                /\ \A j \in 1..(k - 1) :
                      IsNaN(ev[k].p) \/ Greater(ev[k].p, ev[j].p)

\* C3 witness: two categories tie for a positive maximum and the earlier one
\* was returned.
C3_Witness ==
    /\ cls_ret.kind = "returned"
    /\ UsesClassifyEvent
    /\ LET r  == cls_ret.value
           ev == r.events
       IN  \E k \in 1..Len(ev) : \E j \in (k + 1)..Len(ev) :
               /\ ev[k].label = r.status
               /\ ev[k].p.num > 0
               /\ FloatEq(ev[k].p, ev[j].p)

\* C10: when a value of the series satisfies none of the declared predicates
\* of its factor, the classifier reports it instead of returning a normal
\* classification result.
C10_UnclassifiableDetected ==
    (cls_ret.kind # "not_called" /\ UsesClassifyEvent
        /\ \E i \in 1..Len(series) : Unclassifiable(i)) =>
        cls_ret.kind = "raised"

-----------------------------------------------------------------------------
(* Properties of the window generator (checked under SpecDates) *)

TargetIsDate == ValidDate(target_date.year, target_date.month, target_date.day)

\* C6: for every target date d and n >= 0, filter_years(d, n) produces exactly
\* n distinct dates, the i-th with year d.year - i.
C6_YearSeriesShape ==
    (TargetIsDate /\ fy_ret.kind # "not_called") =>
        /\ fy_ret.kind = "returned"
        /\ Len(fy_ret.value) = years
        /\ \A i \in 1..years : fy_ret.value[i].year = target_date.year - i
        /\ \A i, j \in 1..years : i # j => fy_ret.value[i] # fy_ret.value[j]

\* C7: a February 29 target whose prior year is not a leap year does not make
\* filter_years crash: it returns one date per requested year, each a real
\* date of its year.
C7_LeapDayFallback ==
    (/\ TargetIsDate
     /\ target_date.month = 2 /\ target_date.day = 29
     /\ \E i \in 1..years : ~IsLeap(target_date.year - i)
     /\ fy_ret.kind # "not_called") =>
        /\ fy_ret.kind = "returned"
        /\ Len(fy_ret.value) = years
        /\ \A i \in 1..years :
              ValidDate(fy_ret.value[i].year, fy_ret.value[i].month, fy_ret.value[i].day)

\* C8: for every target date d and radius r >= 0, filter_date(d, r) returns
\* (start, end) with end - start = 2r days and start <= d <= end; r = 0 gives
\* start = end = d.
C8_DayWindow ==
    (TargetIsDate /\ fd_ret.kind # "not_called") =>
        /\ fd_ret.kind = "returned"
        /\ LET start == fd_ret.value[1]
               end   == fd_ret.value[2]
               d     == MkDate(target_date.year, target_date.month, target_date.day)
           IN  /\ ToOrdinal(end) - ToOrdinal(start) = 2 * days
               /\ ToOrdinal(start) <= ToOrdinal(d)
               /\ ToOrdinal(d) <= ToOrdinal(end)
               /\ days = 0 => (start = d /\ end = d)

\* C8 witness: a window of positive radius that starts in one year and ends in
\* the next.
C8_Witness ==
    /\ TargetIsDate
    /\ days >= 1
    /\ fd_ret.kind = "returned"
    /\ fd_ret.value[1].year < fd_ret.value[2].year

-----------------------------------------------------------------------------
(* Properties of the statistics summarizer (checked under SpecStats) *)

\* C9: get_column_statistics applied to a zero-length series signals a failure
\* and never returns a statistics dictionary for it.
C9_EmptySeriesIsFailure ==
    (data.is_series /\ Len(data.values) = 0 /\ stat_ret.kind # "not_called") =>
        stat_ret.kind = "raised"

-----------------------------------------------------------------------------
(* Properties of the aggregation (checked under SpecAggregate) *)

FetchFailed(h) == \E k \in 1..Len(h.fetch_log) : h.fetch_log[k] = "failed"

\* C4: once the fetch of any year of an aggregation has failed, the
\* aggregation has failed as a whole: get_combined_dataframe raised and
\* returned neither table nor year records, and the request ended without
\* final statistics, documents or a success response.
C4_FetchFailureAbortsAggregation ==
    \A w \in Workers :
        LET h == handler[w]
        IN  FetchFailed(h) =>
                /\ h.pc = "done"
                /\ h.agg.kind = "raised"
                /\ h.final_stats = None
                /\ h.full_json = None
                /\ h.yearly_json = None
                /\ h.response = ServerError

\* C4 witness: the second year's fetch failed after the first year's record had
\* been built.
C4_Witness ==
    \E w \in Workers :
        /\ handler[w].fetch_log = <<"ok", "failed">>
        /\ Len(handler[w].yearly_data) = 1
        /\ handler[w].pc = "done"

\* The year records and the combined table get_combined_dataframe returned
\* have the shape the request asks for.
AggregateShape(h) ==
    LET body   == h.data
        yearly == h.agg.value.yearly_data
        table  == h.agg.value.final_df
    IN  /\ Len(yearly) = body.years
        /\ \A k \in 1..Len(yearly) : yearly[k].Year = body.target_date.year - k
        /\ table.rows = ConcatRows([k \in 1..Len(yearly) |-> yearly[k].DataFrame])
        /\ Len(table.rows) = body.years * (2 * body.days + 1)

\* C5: when no fetch fails, get_combined_dataframe returns exactly `years`
\* year records, for the years target.year - 1, target.year - 2, ... in that
\* order, and the combined table is the per-year tables concatenated in that
\* order, years * (2 * days + 1) rows of a provider that answers one row a day.
\* (Stated for years >= 1; with years = 0 pd.concat raises on the empty list.)
C5_AggregateReturnsAllYears ==
    \A w \in Workers :
        LET h == handler[w]
        IN  (h.endpoint = "post" /\ h.data.years >= 1 /\ ~FetchFailed(h)
                /\ (h.pc = "done" \/ h.agg.kind # "not_called")) =>
                /\ h.agg.kind = "returned"
                /\ AggregateShape(h)

\* What does hold of the aggregation: whenever it returns, it returns the shape
\* C5 describes.
AggregateShapeWhenReturned ==
    \A w \in Workers :
        handler[w].agg.kind = "returned" => AggregateShape(handler[w])

-----------------------------------------------------------------------------
(* clean_data *)

\* The cells of column c of a frame that hold a number.
PresentCells(df, c) == SelectSeq(Column(df, c), LAMBDA v : v # Missing)

\* v is the arithmetic mean of xs, to the model's resolution of a tenth.
IsMeanOf(v, xs) ==
    LET diff == v * Len(xs) - SumSeq(xs)
    IN  2 * diff <= Len(xs) /\ -2 * diff <= Len(xs)

\* C11: after clean_data, every numeric cell that was missing holds the
\* arithmetic mean of the non-missing values of its column in the window,
\* every non-missing cell is unchanged, and a column with at least one
\* non-missing value holds no missing cell.
C11_MeanImputation ==
    clean_ret.kind = "returned" =>
        LET out == clean_ret.value
        IN  /\ Len(out.rows) = Len(frame.rows)
            /\ \A k \in 1..Len(frame.rows) : \A c \in NumericColumns :
                  LET present == PresentCells(frame, c)
                  IN  /\ frame.rows[k][c] # Missing =>
                            out.rows[k][c] = frame.rows[k][c]
                      /\ (frame.rows[k][c] = Missing /\ present # << >>) =>
                            /\ out.rows[k][c] # Missing
                            /\ IsMeanOf(out.rows[k][c], present)
                      /\ present # << >> => out.rows[k][c] # Missing

\* clean_data has run on a frame whose temperature column has a missing cell
\* and two different numbers, and whose precipitation column has none missing.
C11_Witness ==
    /\ clean_ret.kind = "returned"
    /\ \E i, j, k \in 1..Len(frame.rows) :
          /\ frame.rows[i].Temperature = Missing
          /\ frame.rows[j].Temperature = 105
          /\ frame.rows[k].Temperature = 320
          /\ clean_ret.value.rows[i].Temperature = 212
    /\ \A k \in 1..Len(frame.rows) : frame.rows[k].Precipitation # Missing

-----------------------------------------------------------------------------
(* Category predicates *)

\* The declared categories of the factor whose masks are True of row i.
CategoriesOfRow(i) ==
    LET cats == DeclaredCategories(factor, series)
    IN  {k \in 1..Len(cats) : cats[k].cond[i]}

\* The rows counted by the classifier, over all categories.
RECURSIVE CountedFrom(_, _)
CountedFrom(events, k) ==
    IF k > Len(events) THEN 0 ELSE events[k].p.num + CountedFrom(events, k + 1)

-----------------------------------------------------------------------------
(* The results stored in app.state (checked under Spec) *)

\* The rows the year records of a yearly document summarise, from record k on.
RECURSIVE YearlyRows(_, _)
YearlyRows(doc, k) ==
    IF k > Len(doc) THEN 0
    ELSE doc[k].Temperature.count.num + YearlyRows(doc, k + 1)

\* The stored documents agree with each other as the products of one request
\* do: full_json carries the statistics and predictions of final_stats, and
\* the year records of yearly_json summarise as many rows as the statistics.
StoredAgree ==
    LET s == app_state
    IN  /\ (s.full_json # None /\ s.final_stats # None) =>
              /\ JsonLoads(s.full_json).Statistics = s.final_stats.Statistics
              /\ JsonLoads(s.full_json).Predictions = s.final_stats.Predictions
        /\ (s.yearly_json # None /\ s.final_stats # None) =>
              YearlyRows(JsonLoads(s.yearly_json), 1)
                  = s.final_stats.Statistics.Temperature.count.num
        /\ (s.full_json # None /\ s.yearly_json # None) =>
              YearlyRows(JsonLoads(s.yearly_json), 1)
                  = JsonLoads(s.full_json).Statistics.Temperature.count.num

\* A worker is between the first and the last store of results().
Publishing(w) == handler[w].pc \in {"store_yearly", "store_stats"}

-----------------------------------------------------------------------------
(* Downloads and failed requests (checked under Spec) *)

\* This step is worker w answering a download request.
DownloadStep(w) ==
    /\ handler[w].pc = "idle"
    /\ handler'[w].endpoint \in {"full_json", "yearly_data"}

\* This step is one of a POST request of worker w whose aggregation has not
\* returned: it is still fetching, or it has just failed.
UnaggregatedPostStep(w) ==
    /\ handler'[w] # handler[w]
    /\ handler'[w].endpoint = "post"
    /\ handler'[w].agg.kind # "returned"

\* What a step may do to the stored results: a download leaves them alone and
\* answers 400 when `nothing_yet` holds before it; a POST whose aggregation
\* has not returned leaves them alone; and a POST answered with an error is
\* one whose aggregation raised, so that none of its steps stored anything.
StoredResultsStep(nothing_yet) ==
    \A w \in Workers :
        /\ DownloadStep(w) =>
              /\ app_state' = app_state
              /\ nothing_yet => handler'[w].response = NoProcessedData
        /\ UnaggregatedPostStep(w) => app_state' = app_state
        /\ (handler'[w].endpoint = "post" /\ handler'[w].response = ServerError) =>
              handler'[w].agg.kind = "raised"

\* No POST request has completed successfully: final_stats is the last store
\* of results(), made as it returns, and nothing ever unsets it.
NoPostCompleted == app_state.final_stats = None

\* No POST request has stored anything: full_json is the first store.
NoPostStored == app_state.full_json = None

DownloadsAndFailedPostsOnceStored == [][StoredResultsStep(NoPostStored)]_vars

=============================================================================
